---- MODULE Spec2Model ----
(***************************************************************************)
(* Model of the streaming result cache of nvim-dbee (package conn):       *)
(* cache.Set with its background drain goroutine, cache.page, cache.Span  *)
(* and cache.flush, all synchronising only through cacheMap (a sync.Map). *)
(*                                                                         *)
(* Granularity: every access to cacheMap (store / load / delete) is its   *)
(* own atomic step of the goroutine that performs it; code between two    *)
(* accesses only touches goroutine-local data (or sinks and the iterator  *)
(* the goroutine owns) and is folded into the step of the access it       *)
(* follows.                                                                *)
(***************************************************************************)
EXTENDS Integers, Sequences, FiniteSets, TLC

\* ---------------------------------------------------------------- bounds
MaxSets == 2        \* successful Set calls (identifiers minted)
MaxRows == 3        \* rows one iterator yields at most, where calls interleave
LongRows == 5       \* rows one iterator yields at most, where one result is paged or drained
MaxPageSize == 2    \* pageSize is drawn from 1..MaxPageSize at construction
MaxIdx == 3         \* the wide range of Span's from/to and page's index: -MaxIdx..MaxIdx
NumSinks == 2       \* outputs handed to one page / Span / flush call

Ids == 1..MaxSets
NoId == 0                       \* the zero value "" of cache.active
Idx == (0 - MaxIdx)..MaxIdx
Spans == {1}                    \* callers of Span
Flushes == {1}                  \* detached flush goroutines

VARIABLES
    pageSize,   \* cache.pageSize
    active,     \* cache.active
    records,    \* cache.records: the keys present in the sync.Map and their values
    minted,     \* number of identifiers minted so far (uuid.New is modelled as a fresh number)
    iter,       \* per identifier: the iterator handed to the Set call that minted it
    task,       \* per identifier: the drain goroutine spawned by Set
    span,       \* per caller: a Span call in progress
    fl,         \* per goroutine: a flush goroutine in progress
    wiped,      \* history: identifiers deleted by a Span / flush with wipe = true
    ev          \* what the step just taken returned or wrote (the observable event)

vars == <<pageSize, active, records, minted, iter, task, span, fl, wiped, ev>>

\* ---------------------------------------------------------------- data
\* The k-th row (1-based) emitted by the iterator of identifier id.
Row(id, k) == <<id, k>>
\* The header the iterator of identifier id reports (non-empty).
Header(id) == <<id>>
\* The first n rows of the iterator of identifier id, in emission order.
Emitted(id, n) == [k \in 1..n |-> Row(id, k)]

\* models.Result; its zero value has a nil header and no rows.
ZeroResult == [header |-> <<>>, rows |-> <<>>, chunkStart |-> 0]
\* cacheRecord; cacheMap.load returns the zero value when the key is absent.
ZeroRecord == [result |-> ZeroResult, drained |-> FALSE]

\* cacheMap.load: (value, ok)
LoadOk(id) == id \in DOMAIN records
Load(id) == IF LoadOk(id) THEN records[id] ELSE ZeroRecord

\* cacheMap.store: unconditionally replaces the value at key
StoreRec(recs, id, rec) == [k \in (DOMAIN recs) \cup {id} |-> IF k = id THEN rec ELSE recs[k]]

\* cacheMap.delete
DeleteRec(recs, id) == [k \in (DOMAIN recs) \ {id} |-> recs[k]]

\* Go's s[a:b] on a slice whose capacity was clamped away: rows a .. b-1 (0-based).
Slice(rows, a, b) == SubSeq(rows, a + 1, b)

Min(a, b) == IF a < b THEN a ELSE b
Max(a, b) == IF a > b THEN a ELSE b

\* ---------------------------------------------------------------- events
NoEv == [op |-> "none", who |-> 0, id |-> NoId, outcome |-> "", from |-> 0, to |-> 0,
         wipe |-> FALSE, rows |-> <<>>, header |-> <<>>, chunkStart |-> 0,
         cur |-> 0, last |-> 0, len |-> 0, drained |-> FALSE, spawned |-> FALSE,
         closed |-> FALSE, eos |-> FALSE, sunk |-> 0, failed |-> 0, after |-> FALSE,
         again |-> FALSE, prev |-> <<>>, stuck |-> FALSE]

\* ---------------------------------------------------------------- initial state
IdleIter == [pos |-> 0, ended |-> FALSE, closed |-> FALSE]
IdleTask == [pc |-> "none", rows |-> <<>>, i |-> 0]
\* after, stuck, kept, again and prev are history: whether the call began after a
\* wipe of its identifier; whether it began after the drain goroutine of its
\* identifier had ended on a pull error; whether the caller's previous call returned
\* nil with wipe = false (its arguments are then kept in id/from/to and the rows it
\* wrote in prev); whether the call in progress repeats that previous call.
IdleSpan == [pc |-> "idle", id |-> NoId, from |-> 0, to |-> 0, wipe |-> FALSE,
             cached |-> ZeroResult, after |-> FALSE, kept |-> FALSE, again |-> FALSE,
             prev |-> <<>>, stuck |-> FALSE]
IdleFlush == [pc |-> "idle", id |-> NoId, wipe |-> FALSE, k |-> 0, after |-> FALSE,
              stuck |-> FALSE]

\* NewCache(pageSize, logger); the caller passes a positive page size.
Init ==
    /\ pageSize \in 1..MaxPageSize
    /\ active = NoId
    /\ records = <<>>
    /\ minted = 0
    /\ iter = [id \in Ids |-> IdleIter]
    /\ task = [id \in Ids |-> IdleTask]
    /\ span = [s \in Spans |-> IdleSpan]
    /\ fl = [f \in Flushes |-> IdleFlush]
    /\ wiped = {}
    /\ ev = NoEv

\* ---------------------------------------------------------------- Set
\* Whether Set's function-scope variable err is non-nil when Set returns with the
\* given outcome: the deferred closure closes the iterator exactly then.
\*   header, err := iter.Header()   assigns the function-scope err
\*   errors.New("no headers provided") is returned without being assigned to err
\*   meta, err := iter.Meta()       assigns the function-scope err
\*   row, err := iter.Next()        declares a new err inside the for block
ErrVarSet(outcome) == outcome \in {"HeaderErr", "MetaErr"}

\* The result of Set's synchronous loop `for i := 0; i < c.pageSize; i++`:
\* n rows were appended and the loop ended with `last`:
\*   "full" - i reached pageSize, "nil" - Next returned no row, "err" - Next failed.
FirstPageRuns(maxRows) ==
    {r \in [n : 0..Min(pageSize, maxRows), last : {"full", "nil", "err"}] :
        (r.last = "full") <=> (r.n = pageSize)}

\* Faulty variant of FirstPageDrained: a first page of exactly pageSize rows counts as drained.
FirstPageDrainedWhenFull(run) == run.last = "nil" \/ run.n = pageSize

\* drained := false ... if row == nil { drained = true; break }
FirstPageDrained(run) == run.last = "nil"

\* Faulty variant of Spawns: the goroutine is started whether or not the first page drained.
SpawnsAlways(drained) == TRUE

\* if !drained { go func() {...}() }
Spawns(drained) == ~drained

\* Faulty variant of SetFail: the identifier is minted, stored with the header only
\* and activated before the first page is pulled, so a pull error leaves it behind.
SetFailAfterStore(outcome) ==
    /\ ev' = [NoEv EXCEPT !.op = "Set", !.outcome = outcome, !.closed = ErrVarSet(outcome)]
    /\ IF outcome = "PullErr" /\ minted < MaxSets
       THEN /\ minted' = minted + 1
            /\ active' = minted + 1
            /\ records' = StoreRec(records, minted + 1,
                    [result |-> [header |-> Header(minted + 1), rows |-> <<>>,
                                 chunkStart |-> 0],
                     drained |-> FALSE])
       ELSE UNCHANGED <<minted, active, records>>
    /\ UNCHANGED <<pageSize, iter, task, span, fl, wiped>>

\* Set returning an error: nothing is stored, the event records whether the
\* deferred closure closed the iterator.
SetFail(outcome) ==
    /\ ev' = [NoEv EXCEPT !.op = "Set", !.outcome = outcome, !.closed = ErrVarSet(outcome)]
    /\ UNCHANGED <<pageSize, active, records, minted, iter, task, span, fl, wiped>>

\* Set storing the first page under a fresh identifier and activating it.
SetOk(run, maxSets) ==
    LET id == minted + 1
        rows == Emitted(id, run.n)
        drained == FirstPageDrained(run)
        result == [header |-> Header(id), rows |-> rows, chunkStart |-> 0]
    IN  /\ minted < maxSets
        /\ minted' = id
        /\ records' = StoreRec(records, id, [result |-> result, drained |-> drained])
        /\ active' = id
        /\ iter' = [iter EXCEPT ![id] = [pos |-> run.n, ended |-> drained, closed |-> FALSE]]
        /\ task' = [task EXCEPT ![id] =
                        IF Spawns(drained) THEN [pc |-> "run", rows |-> rows, i |-> 0]
                        ELSE IdleTask]
        /\ ev' = [NoEv EXCEPT !.op = "Set", !.id = id, !.outcome = "ok", !.rows = rows,
                              !.header = result.header, !.len = run.n,
                              !.eos = (run.last = "nil"),
                              !.drained = drained, !.spawned = Spawns(drained)]
        /\ UNCHANGED <<pageSize, span, fl, wiped>>

\* cache.Set(iter). The iterator's answers are the inputs: the header call fails,
\* returns an empty or a non-empty header; the metadata call fails or not; each
\* Next returns a row, no row (end of sequence) or an error.
Set(maxSets, maxRows) ==
    \/ SetFail("HeaderErr")
    \/ SetFail("EmptyHeader")
    \/ SetFail("MetaErr")
    \/ \E run \in FirstPageRuns(maxRows) :
          IF run.last = "err" THEN SetFail("PullErr") ELSE SetOk(run, maxSets)

\* ---------------------------------------------------------------- drain goroutine
\* Faulty variant of DrainStore: the goroutine stores under c.active, read at the
\* time of the store, instead of the identifier it was started with.
DrainStoreUnderActive(id) ==
    /\ task[id].pc = "run"
    /\ task[id].i >= pageSize
    /\ records' = StoreRec(records, active,
            [result |-> [header |-> Header(id), rows |-> task[id].rows, chunkStart |-> 0],
             drained |-> FALSE])
    /\ task' = [task EXCEPT ![id].i = 0]
    /\ ev' = [NoEv EXCEPT !.op = "DrainStore", !.id = id, !.len = Len(task[id].rows)]
    /\ UNCHANGED <<pageSize, active, minted, iter, span, fl, wiped>>

\* if i >= c.pageSize { c.records.store(id, cacheRecord{result: result}); i = 0 }
DrainStore(id) ==
    /\ task[id].pc = "run"
    /\ task[id].i >= pageSize
    /\ records' = StoreRec(records, id,
            [result |-> [header |-> Header(id), rows |-> task[id].rows, chunkStart |-> 0],
             drained |-> FALSE])
    /\ task' = [task EXCEPT ![id].i = 0]
    /\ ev' = [NoEv EXCEPT !.op = "DrainStore", !.id = id, !.len = Len(task[id].rows)]
    /\ UNCHANGED <<pageSize, active, minted, iter, span, fl, wiped>>

\* Faulty variant of DrainPull: a pull error leaves the loop like the end of the
\* sequence does, so the goroutine goes on to its last store.
DrainPullErrorBreaks(id, maxRows) ==
    /\ task[id].pc = "run"
    /\ task[id].i < pageSize
    /\ \/ /\ task' = [task EXCEPT ![id].pc = "final"]
          /\ iter' = iter
          /\ ev' = [NoEv EXCEPT !.op = "DrainPull", !.id = id, !.outcome = "err"]
       \/ /\ task' = [task EXCEPT ![id].pc = "final"]
          /\ iter' = [iter EXCEPT ![id].ended = TRUE]
          /\ ev' = [NoEv EXCEPT !.op = "DrainPull", !.id = id, !.outcome = "nil"]
       \/ /\ iter[id].pos < maxRows
          /\ task' = [task EXCEPT ![id].rows = Append(@, Row(id, iter[id].pos + 1)),
                                  ![id].i = @ + 1]
          /\ iter' = [iter EXCEPT ![id].pos = @ + 1]
          /\ ev' = [NoEv EXCEPT !.op = "DrainPull", !.id = id, !.outcome = "row"]
    /\ UNCHANGED <<pageSize, active, records, minted, span, fl, wiped>>

\* row, err := iter.Next(): error -> return; nil -> break; else append and i++
DrainPull(id, maxRows) ==
    /\ task[id].pc = "run"
    /\ task[id].i < pageSize
    /\ \/ /\ task' = [task EXCEPT ![id].pc = "failed"]
          /\ iter' = iter
          /\ ev' = [NoEv EXCEPT !.op = "DrainPull", !.id = id, !.outcome = "err"]
       \/ /\ task' = [task EXCEPT ![id].pc = "final"]
          /\ iter' = [iter EXCEPT ![id].ended = TRUE]
          /\ ev' = [NoEv EXCEPT !.op = "DrainPull", !.id = id, !.outcome = "nil"]
       \/ /\ iter[id].pos < maxRows
          /\ task' = [task EXCEPT ![id].rows = Append(@, Row(id, iter[id].pos + 1)),
                                  ![id].i = @ + 1]
          /\ iter' = [iter EXCEPT ![id].pos = @ + 1]
          /\ ev' = [NoEv EXCEPT !.op = "DrainPull", !.id = id, !.outcome = "row"]
    /\ UNCHANGED <<pageSize, active, records, minted, span, fl, wiped>>

\* Faulty variant of DrainFinal: the last store forgets the drained flag.
DrainFinalUnmarked(id) ==
    /\ task[id].pc = "final"
    /\ records' = StoreRec(records, id,
            [result |-> [header |-> Header(id), rows |-> task[id].rows, chunkStart |-> 0],
             drained |-> FALSE])
    /\ task' = [task EXCEPT ![id].pc = "done"]
    /\ ev' = [NoEv EXCEPT !.op = "DrainFinal", !.id = id, !.len = Len(task[id].rows)]
    /\ UNCHANGED <<pageSize, active, minted, iter, span, fl, wiped>>

\* c.records.store(id, cacheRecord{drained: true, result: result})
DrainFinal(id) ==
    /\ task[id].pc = "final"
    /\ records' = StoreRec(records, id,
            [result |-> [header |-> Header(id), rows |-> task[id].rows, chunkStart |-> 0],
             drained |-> TRUE])
    /\ task' = [task EXCEPT ![id].pc = "done"]
    /\ ev' = [NoEv EXCEPT !.op = "DrainFinal", !.id = id, !.len = Len(task[id].rows),
                          !.drained = TRUE]
    /\ UNCHANGED <<pageSize, active, minted, iter, span, fl, wiped>>

\* ---------------------------------------------------------------- sinks
\* Faulty variant of Sunk: the loop logs a failed write and goes on to the next sink.
SunkDespiteFailure(failAt) == NumSinks

\* for _, out := range outputs { err := out.Write(result); if err != nil { return err } }
\* failAt = 0: every write succeeds; failAt = k: the write to the k-th sink fails.
\* The number of sinks that received the result:
Sunk(failAt) == IF failAt = 0 THEN NumSinks ELSE failAt - 1

\* ---------------------------------------------------------------- page
\* Faulty variant of PageLast: a full last page is counted as one more, empty page.
PageLastUnadjusted(l, P) == l \div P

\* lastPage := l / c.pageSize; if l%c.pageSize == 0 && lastPage != 0 { lastPage -= 1 }
PageLast(l, P) ==
    LET lp == l \div P
    IN  IF l % P = 0 /\ lp # 0 THEN lp - 1 ELSE lp

\* if page < 0 { page = 0 }
PageIndex(page) == IF page < 0 THEN 0 ELSE page

\* start := c.pageSize * page; if start >= l { start = lastPage * c.pageSize }
PageStart(page, l, P) ==
    LET start == P * PageIndex(page)
    IN  IF start >= l THEN PageLast(l, P) * P ELSE start

\* Faulty variant of PageEnd: the end is not clamped to the rows present.
PageEndUnclamped(page, l, P) == P * (PageIndex(page) + 1)

\* end := c.pageSize * (page + 1); if end > l { end = l }
PageEnd(page, l, P) ==
    LET end == P * (PageIndex(page) + 1)
    IN  IF end > l THEN l ELSE end

\* Go's bounds check of rows[a:b] (the capacity is not below the length).
SliceOk(rows, a, b) == 0 <= a /\ a <= b /\ b <= Len(rows)

\* cache.page(page, outputs...)
Page(page, failAt) ==
    LET id == active
        cachedResult == Load(id).result
        l == Len(cachedResult.rows)
        start == PageStart(page, l, pageSize)
        end == PageEnd(page, l, pageSize)
        base == [NoEv EXCEPT !.op = "page", !.id = id, !.from = page, !.len = l,
                             !.after = id \in wiped]
    IN  /\ ev' = IF cachedResult.header = <<>>
                 THEN [base EXCEPT !.outcome = "NoResults"]
                 ELSE IF ~SliceOk(cachedResult.rows, start, end)
                 THEN [base EXCEPT !.outcome = "panic"]
                 ELSE LET out == [base EXCEPT !.rows = Slice(cachedResult.rows, start, end),
                                              !.header = cachedResult.header,
                                              !.chunkStart = start,
                                              !.to = end,
                                              !.sunk = Sunk(failAt),
                                              !.failed = failAt]
                      IN  IF failAt # 0
                          THEN [out EXCEPT !.outcome = "SinkErr"]
                          ELSE [out EXCEPT !.outcome = "ok",
                                           !.cur = start \div pageSize,
                                           !.last = PageLast(l, pageSize)]
        /\ UNCHANGED <<pageSize, active, records, minted, iter, task, span, fl, wiped>>

\* ---------------------------------------------------------------- Span
\* Faulty variant of SpanInvalid: the mixed-sign check is missing.
SpanInvalidSameSignOnly(from, to) ==
    /\ (from < 0 /\ to < 0) \/ (from >= 0 /\ to >= 0)
    /\ from > to

\* if (from < 0 && to < 0) || (from >= 0 && to >= 0) { if from > to { return ErrInvalidRange } }
\* if from < 0 && to >= 0 { return ErrInvalidRange }
SpanInvalid(from, to) ==
    \/ /\ (from < 0 /\ to < 0) \/ (from >= 0 /\ to >= 0)
       /\ from > to
    \/ from < 0 /\ to >= 0

\* Faulty variant of SpanReady: any record present ends the wait.
SpanReadyAtOnce(rec, to) == TRUE

\* Faulty variant of SpanReady: the row count is compared without `to >= 0`.
SpanReadyAnySign(rec, to) == rec.drained \/ to <= Len(rec.result.rows)

\* if rec.drained || (to >= 0 && to <= len(rec.result.Rows))
SpanReady(rec, to) == rec.drained \/ (to >= 0 /\ to <= Len(rec.result.rows))

\* if from < 0 { from += length; if from < 0 { from = 0 } } ... if from > length { from = length }
SpanFrom(from, length) ==
    LET f == IF from < 0 THEN Max(from + length, 0) ELSE from
    IN  IF f > length THEN length ELSE f

\* Faulty variant of SpanTo: a negative to is resolved without the + 1.
SpanToOffByOne(to, length) ==
    LET t == IF to < 0 THEN Max(to + length, 0) ELSE to
    IN  IF t > length THEN length ELSE t

\* if to < 0 { to += length + 1; if to < 0 { to = 0 } } ... if to > length { to = length }
SpanTo(to, length) ==
    LET t == IF to < 0 THEN Max(to + length + 1, 0) ELSE to
    IN  IF t > length THEN length ELSE t

SpanEv(s) == [NoEv EXCEPT !.op = "Span", !.who = s, !.id = span[s].id, !.from = span[s].from,
                          !.to = span[s].to, !.wipe = span[s].wipe, !.after = span[s].after,
                          !.again = span[s].again, !.prev = span[s].prev,
                          !.stuck = span[s].stuck]

\* History: the drain goroutine of the active identifier has ended on a pull error.
ActiveStuck == active # NoId /\ task[active].pc = "failed"

\* History: the call Span(from, to, wipe) now entered repeats the caller's previous one.
Repeats(s, from, to, wipe) ==
    span[s].kept /\ ~wipe /\ span[s].id = active /\ span[s].from = from /\ span[s].to = to

\* Span entered: id := c.active, then validation.
SpanCall(s, from, to, wipe) ==
    /\ span[s].pc = "idle"
    /\ IF SpanInvalid(from, to)
       THEN /\ ev' = [NoEv EXCEPT !.op = "Span", !.who = s, !.id = active, !.from = from,
                                  !.to = to, !.wipe = wipe, !.outcome = "InvalidRange",
                                  !.after = active \in wiped, !.stuck = ActiveStuck]
            /\ span' = [span EXCEPT ![s] = IdleSpan]
       ELSE /\ span' = [span EXCEPT ![s] =
                [pc |-> "poll", id |-> active, from |-> from, to |-> to, wipe |-> wipe,
                 cached |-> ZeroResult, after |-> active \in wiped, kept |-> FALSE,
                 again |-> Repeats(s, from, to, wipe),
                 prev |-> IF Repeats(s, from, to, wipe) THEN span[s].prev ELSE <<>>,
                 stuck |-> ActiveStuck]]
            /\ ev' = [NoEv EXCEPT !.op = "SpanCall", !.who = s, !.id = active]
    /\ UNCHANGED <<pageSize, active, records, minted, iter, task, fl, wiped>>

\* One round of the wait loop that leaves it: the record is gone, or it is ready.
\* (A round that finds neither and no timeout sleeps and changes nothing.)
SpanPoll(s) ==
    /\ span[s].pc = "poll"
    /\ IF ~LoadOk(span[s].id)
       THEN /\ ev' = [SpanEv(s) EXCEPT !.outcome = "AlreadyFlushed"]
            /\ span' = [span EXCEPT ![s] = IdleSpan]
       ELSE /\ SpanReady(Load(span[s].id), span[s].to)
            /\ span' = [span EXCEPT ![s].pc = "write", ![s].cached = Load(span[s].id).result]
            /\ ev' = [NoEv EXCEPT !.op = "SpanPoll", !.who = s, !.id = span[s].id,
                                  !.len = Len(Load(span[s].id).result.rows),
                                  !.drained = Load(span[s].id).drained]
    /\ UNCHANGED <<pageSize, active, records, minted, iter, task, fl, wiped>>

\* A round of the wait loop that finds the record present, not ready, and the
\* 5-minute context expired.
SpanTimeout(s) ==
    /\ span[s].pc = "poll"
    /\ LoadOk(span[s].id)
    /\ ~SpanReady(Load(span[s].id), span[s].to)
    /\ ev' = [SpanEv(s) EXCEPT !.outcome = "Timeout"]
    /\ span' = [span EXCEPT ![s] = IdleSpan]
    /\ UNCHANGED <<pageSize, active, records, minted, iter, task, fl, wiped>>

\* calculate range, write the slice to the outputs, delete the record when wipe.
SpanWrite(s, failAt) ==
    LET cachedResult == span[s].cached
        length == Len(cachedResult.rows)
        from == SpanFrom(span[s].from, length)
        to == SpanTo(span[s].to, length)
        base == [SpanEv(s) EXCEPT !.len = length]
        sliced == SliceOk(cachedResult.rows, from, to)
        out == [base EXCEPT !.rows = Slice(cachedResult.rows, from, to),
                            !.header = cachedResult.header,
                            !.chunkStart = from,
                            !.sunk = Sunk(failAt),
                            !.failed = failAt]
        wipes == sliced /\ failAt = 0 /\ span[s].wipe
    IN  /\ span[s].pc = "write"
        /\ ev' = IF ~sliced THEN [base EXCEPT !.outcome = "panic"]
                 ELSE IF failAt # 0 THEN [out EXCEPT !.outcome = "SinkErr"]
                 ELSE [out EXCEPT !.outcome = "ok"]
        /\ records' = IF wipes THEN DeleteRec(records, span[s].id) ELSE records
        /\ wiped' = IF wipes THEN wiped \cup {span[s].id} ELSE wiped
        /\ span' = [span EXCEPT ![s] =
                IF sliced /\ failAt = 0 /\ ~span[s].wipe
                THEN [IdleSpan EXCEPT !.id = span[s].id, !.from = span[s].from,
                                      !.to = span[s].to, !.kept = TRUE,
                                      !.prev = Slice(cachedResult.rows, from, to)]
                ELSE IdleSpan]
        /\ UNCHANGED <<pageSize, active, minted, iter, task, fl>>

\* ---------------------------------------------------------------- flush
FlushEv(f) == [NoEv EXCEPT !.op = "flush", !.who = f, !.id = fl[f].id, !.wipe = fl[f].wipe,
                           !.after = fl[f].after, !.stuck = fl[f].stuck]

\* flush(wipe, outputs...): id := c.active; go func() {...}(); returns at once.
FlushCall(f, wipe) ==
    /\ fl[f].pc = "idle"
    /\ fl' = [fl EXCEPT ![f] = [pc |-> "poll", id |-> active, wipe |-> wipe, k |-> 1,
                                after |-> active \in wiped, stuck |-> ActiveStuck]]
    /\ ev' = [NoEv EXCEPT !.op = "FlushCall", !.who = f, !.id = active, !.wipe = wipe]
    /\ UNCHANGED <<pageSize, active, records, minted, iter, task, span, wiped>>

\* One round of the goroutine's wait loop that leaves it: record gone, or drained.
FlushPoll(f) ==
    /\ fl[f].pc = "poll"
    /\ IF ~LoadOk(fl[f].id)
       THEN /\ ev' = [FlushEv(f) EXCEPT !.outcome = "AlreadyFlushed"]
            /\ fl' = [fl EXCEPT ![f] = IdleFlush]
       ELSE /\ Load(fl[f].id).drained
            /\ fl' = [fl EXCEPT ![f].pc = "write"]
            /\ ev' = [NoEv EXCEPT !.op = "FlushPoll", !.who = f, !.id = fl[f].id,
                                  !.len = Len(Load(fl[f].id).result.rows), !.drained = TRUE]
    /\ UNCHANGED <<pageSize, active, records, minted, iter, task, span, wiped>>

\* A round that finds the record present, not drained, and the context expired.
FlushTimeout(f) ==
    /\ fl[f].pc = "poll"
    /\ LoadOk(fl[f].id)
    /\ ~Load(fl[f].id).drained
    /\ ev' = [FlushEv(f) EXCEPT !.outcome = "Timeout"]
    /\ fl' = [fl EXCEPT ![f] = IdleFlush]
    /\ UNCHANGED <<pageSize, active, records, minted, iter, task, span, wiped>>

\* for _, out := range outputs { rec, _ := c.records.load(id); err := out.Write(rec.result)
\*                               if err != nil { c.log.Error(err.Error()) } }
\* One iteration: the k-th sink; writeFails is the sink's answer. After the last
\* sink the goroutine ends unless it still has to wipe.
FlushWrite(f, writeFails) ==
    LET rec == Load(fl[f].id)
        k == fl[f].k
    IN  /\ fl[f].pc = "write"
        /\ ev' = [FlushEv(f) EXCEPT !.outcome = IF writeFails THEN "SinkErr" ELSE "ok",
                                    !.rows = rec.result.rows,
                                    !.header = rec.result.header,
                                    !.chunkStart = rec.result.chunkStart,
                                    !.len = Len(rec.result.rows),
                                    !.sunk = k,
                                    !.failed = IF writeFails THEN k ELSE 0]
        /\ fl' = IF k < NumSinks THEN [fl EXCEPT ![f].k = k + 1]
                 ELSE IF fl[f].wipe THEN [fl EXCEPT ![f].pc = "wipe"]
                 ELSE [fl EXCEPT ![f] = IdleFlush]
        /\ UNCHANGED <<pageSize, active, records, minted, iter, task, span, wiped>>

\* if wipe { c.records.delete(id) }
FlushWipe(f) ==
    /\ fl[f].pc = "wipe"
    /\ records' = DeleteRec(records, fl[f].id)
    /\ wiped' = wiped \cup {fl[f].id}
    /\ fl' = [fl EXCEPT ![f] = IdleFlush]
    /\ ev' = [FlushEv(f) EXCEPT !.op = "FlushWipe", !.outcome = "ok"]
    /\ UNCHANGED <<pageSize, active, minted, iter, task, span>>

\* ---------------------------------------------------------------- specification
Drain(maxRows) == \E id \in Ids : DrainStore(id) \/ DrainPull(id, maxRows) \/ DrainFinal(id)

\* The arguments callers pass to Span where the interleaving is what matters:
\* everything, a prefix and a middle that partial data satisfy, an inverted range.
FewRanges == {<<0, 0 - 1>>, <<0, 1>>, <<1, 2>>, <<2, 0>>}
FewPages == {0, 1}

\* Two results: ingestion, drain goroutines, page and Span interleaved.
Next ==
    \/ Set(MaxSets, MaxRows)
    \/ Drain(MaxRows)
    \/ \E page \in FewPages, failAt \in 0..NumSinks : Page(page, failAt)
    \/ \E s \in Spans, r \in FewRanges, wipe \in BOOLEAN : SpanCall(s, r[1], r[2], wipe)
    \/ \E s \in Spans : SpanPoll(s)
    \/ \E s \in Spans : SpanTimeout(s)
    \/ \E s \in Spans, failAt \in 0..NumSinks : SpanWrite(s, failAt)

Spec == Init /\ [][Next]_vars

\* One result: ingestion, its drain goroutine, page, Span and flush interleaved.
NextFlush ==
    \/ Set(1, MaxRows)
    \/ Drain(MaxRows)
    \/ \E page \in FewPages, failAt \in 0..NumSinks : Page(page, failAt)
    \/ \E s \in Spans, r \in FewRanges, wipe \in BOOLEAN : SpanCall(s, r[1], r[2], wipe)
    \/ \E s \in Spans : SpanPoll(s)
    \/ \E s \in Spans : SpanTimeout(s)
    \/ \E s \in Spans, failAt \in 0..NumSinks : SpanWrite(s, failAt)
    \/ \E f \in Flushes, wipe \in BOOLEAN : FlushCall(f, wipe)
    \/ \E f \in Flushes : FlushPoll(f)
    \/ \E f \in Flushes : FlushTimeout(f)
    \/ \E f \in Flushes, writeFails \in BOOLEAN : FlushWrite(f, writeFails)
    \/ \E f \in Flushes : FlushWipe(f)

SpecFlush == Init /\ [][NextFlush]_vars

\* Two results: ingestion, drain goroutines and page interleaved.
NextTwo ==
    \/ Set(MaxSets, MaxRows)
    \/ Drain(MaxRows)
    \/ \E page \in FewPages, failAt \in 0..NumSinks : Page(page, failAt)

SpecTwo == Init /\ [][NextTwo]_vars

\* Two results: ingestion, drain goroutines, page, and a flush that wipes.
NextTwoWipe ==
    \/ Set(MaxSets, MaxRows)
    \/ Drain(MaxRows)
    \/ \E page \in FewPages : Page(page, 0)
    \/ \E f \in Flushes : FlushCall(f, TRUE)
    \/ \E f \in Flushes : FlushPoll(f)
    \/ \E f \in Flushes : FlushTimeout(f)
    \/ \E f \in Flushes : FlushWrite(f, FALSE)
    \/ \E f \in Flushes : FlushWipe(f)

SpecTwoWipe == Init /\ [][NextTwoWipe]_vars

\* One result, paged over the wide index range while it drains.
NextPage ==
    \/ Set(1, LongRows)
    \/ Drain(LongRows)
    \/ \E page \in Idx, failAt \in 0..NumSinks : Page(page, failAt)

SpecPage == Init /\ [][NextPage]_vars

\* One result, one Span caller with from/to over the wide index range.
NextRange ==
    \/ Set(1, MaxRows)
    \/ Drain(MaxRows)
    \/ \E s \in Spans, from \in Idx, to \in Idx, wipe \in BOOLEAN : SpanCall(s, from, to, wipe)
    \/ \E s \in Spans : SpanPoll(s)
    \/ \E s \in Spans : SpanTimeout(s)
    \/ \E s \in Spans, failAt \in 0..NumSinks : SpanWrite(s, failAt)

SpecRange == Init /\ [][NextRange]_vars

\* One result of up to LongRows rows, its drain goroutine scheduled fairly (the Go
\* scheduler runs a runnable goroutine, and the iterator answers every pull), with
\* page and Span (wiping or not) called at any time.
NextLive ==
    \/ Set(1, LongRows)
    \/ Drain(LongRows)
    \/ \E page \in FewPages : Page(page, 0)
    \/ \E s \in Spans, r \in FewRanges, wipe \in BOOLEAN : SpanCall(s, r[1], r[2], wipe)
    \/ \E s \in Spans : SpanPoll(s)
    \/ \E s \in Spans : SpanTimeout(s)
    \/ \E s \in Spans : SpanWrite(s, 0)

LiveSpec ==
    /\ Init
    /\ [][NextLive]_vars
    /\ \A id \in Ids : /\ WF_vars(DrainStore(id))
                       /\ WF_vars(DrainPull(id, LongRows))
                       /\ WF_vars(DrainFinal(id))

\* One result with Span and flush waiting on it. The goroutines are scheduled
\* fairly, and time passes: a wait loop that keeps finding its record present and
\* not ready reaches its context deadline (5 minutes) in the end, so every round of
\* a wait loop is followed by another round or by the loop's exit.
NextWait ==
    \/ Set(1, MaxRows)
    \/ Drain(MaxRows)
    \/ \E s \in Spans, r \in FewRanges, wipe \in BOOLEAN : SpanCall(s, r[1], r[2], wipe)
    \/ \E s \in Spans : SpanPoll(s)
    \/ \E s \in Spans : SpanTimeout(s)
    \/ \E s \in Spans : SpanWrite(s, 0)
    \/ \E f \in Flushes, wipe \in BOOLEAN : FlushCall(f, wipe)
    \/ \E f \in Flushes : FlushPoll(f)
    \/ \E f \in Flushes : FlushTimeout(f)
    \/ \E f \in Flushes : FlushWrite(f, FALSE)
    \/ \E f \in Flushes : FlushWipe(f)

WaitSpec ==
    /\ Init
    /\ [][NextWait]_vars
    /\ \A id \in Ids : /\ WF_vars(DrainStore(id))
                       /\ WF_vars(DrainPull(id, MaxRows))
                       /\ WF_vars(DrainFinal(id))
    /\ \A s \in Spans : WF_vars(SpanPoll(s) \/ SpanTimeout(s))
    /\ \A f \in Flushes : WF_vars(FlushPoll(f) \/ FlushTimeout(f))

\* ================================================================ claims

\* A record with drained = true has been stored under id: by Set (its first page
\* ended the sequence, no goroutine) or by the goroutine's last store.
DrainedStored(id) ==
    /\ id <= minted
    /\ iter[id].ended
    /\ task[id].pc \in {"none", "done"}

\* C1 - Drained finality: once a drained record has been stored under an
\* identifier, whatever is later found under that identifier is drained and holds
\* the same rows (all rows of the iterator); no step replaces a drained record by
\* a different one. Deleting it is the only change.
C1_DrainedFinal ==
    /\ [](\A id \in Ids :
            (DrainedStored(id) /\ LoadOk(id)) =>
                /\ records[id].drained
                /\ records[id].result.rows = Emitted(id, iter[id].pos))
    /\ [][\A id \in Ids :
            (LoadOk(id) /\ records[id].drained /\ id \in DOMAIN records') =>
                records'[id] = records[id]]_vars

\* C1 witness: the goroutine stored the drained record and a later Span loaded it.
C1_Witness ==
    /\ ev.op = "SpanPoll"
    /\ task[ev.id].pc = "done"
    /\ LoadOk(ev.id)
    /\ records[ev.id].drained
    /\ Len(records[ev.id].result.rows) = MaxRows

\* C2 - Eventual drain: a spawned drain goroutine whose pulls never fail
\* eventually stores, under the identifier Set minted, a drained record holding
\* every row the iterator yielded, in emission order.
C2_EventualDrain ==
    \A id \in Ids :
        (task[id].pc = "run") ~>
            \/ task[id].pc = "failed"
            \/ /\ iter[id].ended
               /\ LoadOk(id)
               /\ records[id].drained
               /\ records[id].result.rows = Emitted(id, iter[id].pos)

\* C2 witness: pageSize = 2, five rows then end of sequence, the goroutine done.
C2_Witness ==
    /\ pageSize = 2
    /\ task[1].pc = "done"
    /\ LoadOk(1)
    /\ records[1].drained
    /\ records[1].result.rows = Emitted(1, 5)

\* C3 - First page on ingestion: when Set returns nil the record under the new
\* active identifier holds the rows of the synchronous pull; if the iterator
\* signalled end of sequence during that pull these are fewer than pageSize rows,
\* the record is drained and no goroutine exists; otherwise they are exactly
\* pageSize rows, the record is not drained and the goroutine of that identifier
\* has just been started.
C3_FirstPage ==
    (ev.op = "Set" /\ ev.outcome = "ok") =>
        /\ active = ev.id
        /\ LoadOk(active)
        /\ records[active].result.header = Header(active)
        /\ IF ev.eos
           THEN /\ ev.len < pageSize
                /\ records[active].result.rows = Emitted(active, ev.len)
                /\ records[active].drained
                /\ task[active].pc = "none"
           ELSE /\ records[active].result.rows = Emitted(active, pageSize)
                /\ ~records[active].drained
                /\ task[active] = [pc |-> "run", rows |-> Emitted(active, pageSize), i |-> 0]
        /\ \A id \in Ids : id > minted => task[id].pc = "none"

\* C3 witness: Set returned with a full first page of pageSize = 2 rows (N >= P).
C3_Witness ==
    /\ ev.op = "Set"
    /\ ev.outcome = "ok"
    /\ ~ev.eos
    /\ pageSize = 2
    /\ Len(records[active].result.rows) = 2

\* C4 - Iterator release on ingestion error, as claimed: whenever Set fails on an
\* empty header or on a header / metadata read error, the iterator has been closed
\* when Set returns.
C4_ClosedOnHeaderError ==
    (ev.op = "Set" /\ ev.outcome \in {"EmptyHeader", "HeaderErr", "MetaErr"}) => ev.closed

\* ceil(l / P) - 1 for l > 0, and 0 for l = 0.
CeilLast(l, P) == IF l = 0 THEN 0 ELSE ((l + P - 1) \div P) - 1

C6_PageConcurrent ==
    /\ ENABLED Page(0, 0)
    /\ ev.op = "page" =>
        /\ ev.outcome # "panic"
        /\ ev.outcome \in {"ok", "SinkErr"} =>
            /\ LoadOk(ev.id)
            /\ 0 <= ev.chunkStart
            /\ ev.chunkStart <= ev.to
            /\ ev.to <= Len(records[ev.id].result.rows)
            /\ ev.to <= iter[ev.id].pos
            /\ ev.rows = Slice(Emitted(ev.id, iter[ev.id].pos), ev.chunkStart, ev.to)
            /\ ev.header = Header(ev.id)

\* C6 witness: page(1) answered from a partial record while the goroutine runs
\* with rows pulled but not yet published.
C6_Witness ==
    /\ ev.op = "page"
    /\ ev.outcome = "ok"
    /\ ev.from = 1
    /\ task[ev.id].pc = "run"
    /\ ev.rows # <<>>
    /\ Len(records[ev.id].result.rows) < iter[ev.id].pos

\* The final length of the result of id is not below `to`: once the iterator has
\* ended, the rows it yielded are at least `to`.
WithinFinal(id, to) == iter[id].ended => to <= iter[id].pos

\* C7 - Span exact range and idempotence: a Span(from, to, false) with
\* 0 <= from <= to <= L that returns nil wrote exactly rows [from, to) of the
\* emission sequence to every sink, with chunkStart = from; when it repeats the
\* caller's previous call it wrote the rows that call wrote; and no Span with
\* wipe = false changes the record store.
C7_SpanExact ==
    /\ [](  (/\ ev.op = "Span"
             /\ ev.outcome = "ok"
             /\ ~ev.wipe
             /\ 0 <= ev.from
             /\ ev.from <= ev.to
             /\ WithinFinal(ev.id, ev.to))
          => /\ ev.rows = Slice(Emitted(ev.id, ev.to), ev.from, ev.to)
             /\ ev.chunkStart = ev.from
             /\ ev.sunk = NumSinks
             /\ ev.again => ev.rows = ev.prev)
    /\ [][(ev'.op = "Span" /\ ~ev'.wipe) => records' = records]_vars

\* C7 witness: a repeated Span(1, 3, false) returned nil with two rows.
C7_Witness ==
    /\ ev.op = "Span"
    /\ ev.outcome = "ok"
    /\ ev.again
    /\ ~ev.wipe
    /\ ev.from = 1
    /\ ev.to = 3
    /\ Len(ev.rows) = 2

\* C8 - Span end-relative indexing: a Span with negative to proceeds only on a
\* drained record; with L its rows, Span(0, -1, false) writes all L rows in order,
\* and for negative from <= to it writes rows [max(from + L, 0), max(to + L + 1, 0)).
C8_SpanNegative ==
    (ev.op = "Span" /\ ev.outcome = "ok" /\ ev.to < 0 /\ ~ev.wipe) =>
        LET L == iter[ev.id].pos
        IN  /\ iter[ev.id].ended
            /\ ev.len = L
            /\ (ev.from = 0 /\ ev.to = 0 - 1) => ev.rows = Emitted(ev.id, L)
            /\ (ev.from < 0 /\ ev.from <= ev.to) =>
                  /\ Max(ev.to + L + 1, 0) <= L
                  /\ ev.rows = Slice(Emitted(ev.id, L), Max(ev.from + L, 0),
                                     Max(ev.to + L + 1, 0))

\* C8 witness: three rows drained, Span(-2, -1, false) wrote the last two rows.
C8_Witness ==
    /\ ev.op = "Span"
    /\ ev.outcome = "ok"
    /\ ev.from = 0 - 2
    /\ ev.to = 0 - 1
    /\ ~ev.wipe
    /\ ev.rows = <<Row(ev.id, 2), Row(ev.id, 3)>>

\* C9 - Consume and discard, as claimed: a read (page, Span past its validation,
\* flush) that begins after a Span or flush with wipe = true deleted its identifier
\* fails: Span and flush with AlreadyFlushed, page with its own error for a record
\* that is not there.
C9_ReadAfterWipeFails ==
    (ev.after /\ ev.op \in {"page", "Span", "flush"}) =>
        \/ ev.outcome = "AlreadyFlushed"
        \/ ev.op = "page" /\ ev.outcome = "NoResults"
        \/ ev.op = "Span" /\ ev.outcome = "InvalidRange"

SameSign(a, b) == (a < 0) <=> (b < 0)

\* What the claim calls an invalid range.
ClaimedInvalid(from, to) ==
    \/ SameSign(from, to) /\ from > to
    \/ from < 0 /\ to >= 0

\* C10 - Span range validation: Span returns InvalidRange exactly for the ranges
\* the claim names; a call that passes validation has none of them; and the failing
\* call is one step that writes no sink, leaves the record store and the wiped
\* identifiers as they were and never enters the wait loop.
C10_SpanValidation ==
    /\ [](/\ (ev.op = "Span" /\ ev.outcome = "InvalidRange") =>
                /\ ClaimedInvalid(ev.from, ev.to)
                /\ ev.sunk = 0
                /\ ev.rows = <<>>
                /\ span[ev.who].pc = "idle"
          /\ (ev.op = "Span" /\ ev.outcome # "InvalidRange") =>
                ~ClaimedInvalid(ev.from, ev.to)
          /\ \A s \in Spans : span[s].pc # "idle" =>
                ~ClaimedInvalid(span[s].from, span[s].to))
    /\ [][(ev'.op = "Span" /\ ev'.outcome = "InvalidRange") =>
                /\ records' = records
                /\ wiped' = wiped
                /\ span[ev'.who].pc = "idle"]_vars

\* C10 witness: Span(3, 2, false) failed with InvalidRange while the active
\* record, still being drained, was in the store.
C10_Witness ==
    /\ ev.op = "Span"
    /\ ev.outcome = "InvalidRange"
    /\ ev.from = 3
    /\ ev.to = 2
    /\ ~ev.wipe
    /\ LoadOk(active)
    /\ ~records[active].drained

\* C11 - Terminal flush ordering: the flush call itself writes no sink; its
\* goroutine is in the write loop or past it only for a record it has found
\* drained; every result it hands to a sink has the header and all the rows of the
\* drained record of the identifier that was active at the call; and it deletes the
\* identifier only after the last sink was written.
C11_FlushOrdering ==
    /\ ev.op = "FlushCall" => (ev.sunk = 0 /\ fl[ev.who].pc = "poll")
    /\ \A f \in Flushes : fl[f].pc \in {"write", "wipe"} => iter[fl[f].id].ended
    /\ (ev.op = "flush" /\ ev.outcome \in {"ok", "SinkErr"}) =>
            /\ ev.header = Header(ev.id)
            /\ ev.rows = Emitted(ev.id, iter[ev.id].pos)
    /\ \A f \in Flushes : fl[f].pc = "wipe" => (fl[f].wipe /\ fl[f].k = NumSinks)
    /\ ev.op = "FlushWipe" => ev.wipe

\* C12 - Sink failure in page and Span: sinks are written in argument order and
\* a call whose k-th sink write fails returns that error having written exactly
\* the sinks 1 .. k-1; a call that returns nil has written every sink; and the only
\* Span step that changes the record store is a wiping call that returned nil, so a
\* Span with wipe = true whose sink write failed leaves its record in the store.
C12_SinkFailure ==
    /\ [](ev.op \in {"page", "Span"} =>
            /\ ev.failed > 0 => (ev.outcome = "SinkErr" /\ ev.sunk = ev.failed - 1)
            /\ ev.outcome = "SinkErr" => ev.failed \in 1..NumSinks
            /\ ev.outcome = "ok" => (ev.failed = 0 /\ ev.sunk = NumSinks)
            /\ ev.outcome \notin {"ok", "SinkErr"} => ev.sunk = 0)
    /\ [][ev'.op \in {"page", "Span"} =>
            /\ records' # records =>
                    /\ ev'.op = "Span"
                    /\ ev'.outcome = "ok"
                    /\ ev'.wipe
                    /\ ev'.sunk = NumSinks
                    /\ records' = DeleteRec(records, ev'.id)
            /\ ev'.outcome = "SinkErr" => (records' = records /\ wiped' = wiped)]_vars

\* C12 witness: a Span with wipe = true wrote the first sink, failed on the
\* second, and its record is still in the store.
C12_Witness ==
    /\ ev.op = "Span"
    /\ ev.outcome = "SinkErr"
    /\ ev.wipe
    /\ ev.failed = 2
    /\ ev.sunk = 1
    /\ LoadOk(ev.id)
    /\ ev.id \notin wiped

\* C13 - Sink failure in flush: when a sink write fails inside the flush
\* goroutine, the remaining sink writes of that flush call are aborted: after a
\* failed write the goroutine is no longer in its write loop.
C13_FlushAbortsOnSinkError ==
    (ev.op = "flush" /\ ev.outcome = "SinkErr") => fl[ev.who].pc # "write"

\* C14 as the specification states it: every validated Span or flush called on an
\* identifier whose drain goroutine has ended on a pull error ends with the timeout
\* error.
C14_StuckTimesOut ==
    (ev.stuck /\ ev.op \in {"Span", "flush"} /\ ev.outcome # "InvalidRange") =>
        ev.outcome = "Timeout"

\* A Span range that the rows published under id do not satisfy while the record
\* is not drained.
NeedsMore(id, to) == to < 0 \/ (LoadOk(id) /\ to > Len(records[id].result.rows))

\* C14 - Stuck record after background pull error: a pull error ends the drain
\* goroutine; from then on nothing is stored under its identifier and whatever is
\* found there is not drained. A Span called later proceeds with data only when
\* its `to` is non-negative and within the rows published; a flush called later
\* never writes; and a later flush, or a later Span with negative `to` or `to`
\* beyond the rows published, ends in the end with the timeout error, or with
\* AlreadyFlushed when another call has wiped the identifier meanwhile.
C14_StuckRecord ==
    /\ [][(ev'.op = "DrainPull" /\ ev'.outcome = "err") =>
                task'[ev'.id].pc = "failed"]_vars
    /\ [][\A id \in Ids : task[id].pc = "failed" =>
                /\ task'[id] = task[id]
                /\ id \in DOMAIN records' => (LoadOk(id) /\ records'[id] = records[id])]_vars
    /\ [](\A id \in Ids : (task[id].pc = "failed" /\ LoadOk(id)) => ~records[id].drained)
    /\ []((ev.stuck /\ ev.op = "flush") => ev.outcome \in {"Timeout", "AlreadyFlushed"})
    /\ []((ev.stuck /\ ev.op = "Span" /\ ev.outcome \in {"ok", "SinkErr", "panic"}) =>
                (ev.to >= 0 /\ ev.to <= ev.len))
    /\ []((ev.stuck /\ ev.op = "Span" /\ ev.outcome = "Timeout") =>
                NeedsMore(ev.id, ev.to))
    /\ \A s \in Spans :
            (span[s].pc = "poll" /\ span[s].stuck /\ NeedsMore(span[s].id, span[s].to))
                ~> (ev.op = "Span" /\ ev.who = s /\ ev.stuck
                        /\ ev.outcome \in {"Timeout", "AlreadyFlushed"})
    /\ \A f \in Flushes :
            (fl[f].pc = "poll" /\ fl[f].stuck)
                ~> (ev.op = "flush" /\ ev.who = f /\ ev.stuck
                        /\ ev.outcome \in {"Timeout", "AlreadyFlushed"})

\* C14 witness: a Span(0, -1, false), called after the drain goroutine had ended
\* on a pull error, ended with the timeout error; the record is there, not drained.
C14_Witness ==
    /\ ev.op = "Span"
    /\ ev.stuck
    /\ ev.outcome = "Timeout"
    /\ ev.to < 0
    /\ task[ev.id].pc = "failed"
    /\ LoadOk(ev.id)
    /\ ~records[ev.id].drained

\* C15 - Span wait condition: a validated Span leaves its wait loop with data
\* only when the record it loaded is drained or its `to` is non-negative and at
\* most the number of rows published (so with a negative `to` only once drained);
\* a round that finds the identifier absent fails with AlreadyFlushed; the timeout
\* error is returned only while the record is present and the condition unmet;
\* and the loop always ends in one of these three ways.
C15_SpanWait ==
    /\ [](ev.op = "SpanPoll" =>
            /\ span[ev.who].pc = "write"
            /\ LoadOk(ev.id)
            /\ ev.drained = records[ev.id].drained
            /\ ev.len = Len(records[ev.id].result.rows)
            /\ span[ev.who].cached = records[ev.id].result
            /\ ev.drained \/ (span[ev.who].to >= 0 /\ span[ev.who].to <= ev.len)
            /\ span[ev.who].to < 0 => ev.drained)
    /\ []((ev.op = "Span" /\ ev.outcome = "AlreadyFlushed") => ~LoadOk(ev.id))
    /\ []((ev.op = "Span" /\ ev.outcome = "Timeout") =>
            /\ LoadOk(ev.id)
            /\ ~records[ev.id].drained
            /\ NeedsMore(ev.id, ev.to))
    /\ [][\A s \in Spans : (span[s].pc = "poll" /\ span'[s] # span[s]) =>
            /\ records' = records
            /\ IF ~LoadOk(span[s].id)
               THEN ev'.op = "Span" /\ ev'.outcome = "AlreadyFlushed"
               ELSE IF records[span[s].id].drained \/ ~NeedsMore(span[s].id, span[s].to)
               THEN ev'.op = "SpanPoll" /\ span'[s].pc = "write"
               ELSE ev'.op = "Span" /\ ev'.outcome = "Timeout"]_vars
    /\ \A s \in Spans : (span[s].pc = "poll") ~> (span[s].pc # "poll")

\* C15 witness: a Span with non-negative `to` left the wait loop with the rows
\* published so far while its record was not drained.
C15_Witness ==
    /\ ev.op = "SpanPoll"
    /\ ~ev.drained
    /\ span[ev.who].pc = "write"
    /\ span[ev.who].to >= 1
    /\ span[ev.who].to <= ev.len
    /\ task[ev.id].pc = "run"

\* C16 - Active record isolation: the active identifier is the one minted by the
\* most recent successful Set, and page reads the record of that identifier only
\* (its header and rows are those of the active result). Every record in the store
\* holds the header and a prefix of the rows of its own identifier; a store by a
\* drain goroutine leaves the record of every other identifier as it was; and the
\* record of every identifier minted stays loadable until it is wiped.
C16_ActiveIsolation ==
    /\ [](active = minted)
    /\ [](ev.op = "Set" /\ ev.outcome = "ok" => ev.id = active)
    /\ [](ev.op = "page" =>
            /\ ev.id = active
            /\ ev.outcome \in {"ok", "SinkErr"} =>
                    /\ ev.header = Header(active)
                    /\ \E a \in 0..MaxRows, b \in 0..MaxRows :
                            ev.rows = Slice(Emitted(active, MaxRows), a, b))
    /\ [](\A id \in DOMAIN records :
            /\ records[id].result.header = Header(id)
            /\ records[id].result.rows = Emitted(id, Len(records[id].result.rows)))
    /\ [][ev'.op \in {"DrainStore", "DrainFinal"} =>
            \A other \in Ids \ {ev'.id} :
                /\ (other \in DOMAIN records') = (other \in DOMAIN records)
                /\ other \in DOMAIN records => records'[other] = records[other]]_vars
    /\ [](\A id \in 1..minted : id \notin wiped => LoadOk(id))

\* C16 witness: the drain goroutine of the first result made a store while the
\* second result was active and still being drained; a third record is absent.
C16_Witness ==
    /\ ev.op = "DrainStore"
    /\ ev.id = 1
    /\ minted = 2
    /\ active = 2
    /\ LoadOk(1)
    /\ LoadOk(2)
    /\ task[2].pc = "run"
    /\ Len(records[2].result.rows) > 0

\* C17 - Failed Set has no effect: a Set that returns an error (empty header,
\* header or metadata read error, pull error in the first page) stores no record,
\* mints no identifier, leaves the active identifier as it was and starts no
\* goroutine; a Set that returns nil mints exactly one identifier, the next one,
\* stores exactly one record, under it, makes it active, and touches the record
\* and the goroutine of no other identifier.
C17_FailedSetNoEffect ==
    /\ [](ev.op = "Set" => ev.outcome \in {"ok", "EmptyHeader", "HeaderErr", "MetaErr", "PullErr"})
    /\ [][(ev'.op = "Set" /\ ev'.outcome # "ok") =>
            /\ records' = records
            /\ minted' = minted
            /\ active' = active
            /\ task' = task
            /\ ~ev'.spawned]_vars
    /\ [][(ev'.op = "Set" /\ ev'.outcome = "ok") =>
            /\ minted' = minted + 1
            /\ ev'.id = minted'
            /\ active' = minted'
            /\ ~LoadOk(minted')
            /\ DOMAIN records' = DOMAIN records \cup {minted'}
            /\ \A id \in DOMAIN records : records'[id] = records[id]
            /\ \A id \in Ids \ {minted'} : task'[id] = task[id]
            /\ task[minted'].pc = "none"
            /\ (task'[minted'].pc = "run") = ev'.spawned]_vars

\* C17 witness: a Set failed on a pull of its first page while an earlier result
\* was active and still being drained.
C17_Witness ==
    /\ ev.op = "Set"
    /\ ev.outcome = "PullErr"
    /\ minted = 1
    /\ active = 1
    /\ DOMAIN records = {1}
    /\ task[1].pc = "run"
    /\ task[2].pc = "none"

\* C18 - Span slice bounds always valid: for every (from, to) that passes
\* validation and every record length, the indices resolved from them satisfy
\* 0 <= from <= to <= length where the rows are sliced, so no Span call panics.
C18_SpanSliceValid ==
    (ev.op = "Span" /\ ev.outcome \notin {"InvalidRange", "AlreadyFlushed", "Timeout"}) =>
        /\ 0 <= SpanFrom(ev.from, ev.len)
        /\ SpanFrom(ev.from, ev.len) <= SpanTo(ev.to, ev.len)
        /\ SpanTo(ev.to, ev.len) <= ev.len
        /\ ev.outcome # "panic"

\* C19 - Flush writes the drained result even under a concurrent wipe: whatever
\* other calls wipe meanwhile, every result the flush goroutine hands to a sink
\* has the header of its record and all the rows the iterator emitted; it never
\* writes an empty result.
C19_FlushWritesDrainedResult ==
    (ev.op = "flush" /\ ev.sunk > 0) =>
        /\ ev.header # <<>>
        /\ ev.header = Header(ev.id)
        /\ ev.len = iter[ev.id].pos
        /\ ev.rows = Emitted(ev.id, iter[ev.id].pos)

\* C20 - No resurrection after wipe: an identifier that a Span or flush with
\* wipe = true has deleted is absent from the store in every later state.
C20_NoResurrection ==
    \A id \in wiped : ~LoadOk(id)

====
